---- MODULE Spec2Model ----
(***************************************************************************)
(* Conference-registration portal backend (Express).  Two route sets       *)
(* exist in the repository:                                                *)
(*   variant "A"  src/unnamed/part_000   (payment proof upload, mark-paid) *)
(*   variant "B"  src/server/server.js   (JSON payment confirmation)       *)
(* A running server is one of the two; `variant` says which.  The state is *)
(* the JSON file registrations.json (`db`), and `last` is the exchange the *)
(* server completed last (operation, HTTP status, JSON body).              *)
(*                                                                         *)
(* JavaScript values: strings are TLA+ strings, numbers are integers,      *)
(* null is Null; a property whose value is undefined is an absent key      *)
(* (JSON.stringify drops such properties, and reading an absent key gives  *)
(* undefined, so the two are the same thing to this program).              *)
(***************************************************************************)
EXTENDS Integers, Sequences, FiniteSets, TLC

VARIABLES variant, db, last, reqs, running, acked

vars == <<variant, db, last, reqs, running, acked>>

Null == "<null>"

Undefined == "<undefined>"

\* The largest number of records a load may return for register to run.
MaxRows == 2

\* The same cap in the registration specification, whose register requests
\* are many more.
MaxRegRows == 1

\* The number of requests in flight in the interleaved specification.
MaxReqs == 2

(***************************************************************************)
(* JavaScript helpers                                                      *)
(***************************************************************************)

\* !v for the string-or-undefined values of a request body.
Falsy(v) == v \in {"", Undefined, Null}

EmptyObj == [k \in {} |-> Null]

\* obj[k]: undefined when the key is absent.
Get(obj, k) == IF k \in DOMAIN obj THEN obj[k] ELSE Undefined

\* obj.k = v on a parsed record.
SetProp(obj, k, v) ==
  IF v = Undefined
    THEN [j \in (DOMAIN obj) \ {k} |-> obj[j]]
    ELSE (k :> v) @@ obj

UpperCase == <<"A","B","C","D","E","F","G","H","I","J","K","L","M",
               "N","O","P","Q","R","S","T","U","V","W","X","Y","Z">>

LowerCase == <<"a","b","c","d","e","f","g","h","i","j","k","l","m",
               "n","o","p","q","r","s","t","u","v","w","x","y","z">>

LowerChar(c) ==
  IF \E i \in 1..26 : UpperCase[i] = c
    THEN LowerCase[CHOOSE i \in 1..26 : UpperCase[i] = c]
    ELSE c

\* The characters of the strings the model uses (TLC cannot index a string).
Spell(s) ==
  CASE s = ""           -> <<>>
    [] s = "a@x"        -> <<"a","@","x">>
    [] s = "A@x"        -> <<"A","@","x">>
    [] s = "A@X"        -> <<"A","@","X">>
    [] s = "b@x"        -> <<"b","@","x">>
    [] s = "Ann"        -> <<"A","n","n">>
    [] s = "7g"         -> <<"7","g">>
    [] s = "7GQ2M4KX9A" -> <<"7","G","Q","2","M","4","K","X","9","A">>
    [] s = "B3HT8WPL5N" -> <<"B","3","H","T","8","W","P","L","5","N">>
    [] s = "null"       -> <<"n","u","l","l">>
    [] s = "undefined"  -> <<"u","n","d","e","f","i","n","e","d">>

\* String.prototype.toLowerCase, on the characters.
toLowerCase(s) == [i \in 1..Len(Spell(s)) |-> LowerChar(Spell(s)[i])]

\* a.includes(b) on character sequences.
includes(a, b) ==
  \E i \in 0..(Len(a) - Len(b)) : \A j \in 1..Len(b) : a[i + j] = b[j]

\* String(v) inside a concatenation: null and undefined spell themselves.
StringOf(v) ==
  IF v = Null THEN "null" ELSE IF v = Undefined THEN "undefined" ELSE v

(***************************************************************************)
(* Configuration and the fee table                                         *)
(***************************************************************************)

ADMIN_PASSWORD == "VishalRajput2003"

Categories ==
  {"Research Scholars", "Academia", "Industry Professionals",
   "Listeners / Accompanying"}

Regions == {"INDIA", "ASIA", "OTHER"}

Fee(c, a) == [currency |-> c, amount |-> a]

FEES ==
  [c \in Categories |->
    CASE c = "Research Scholars" ->
           [r \in Regions |-> CASE r = "INDIA" -> Fee("INR", 1500)
                                [] r = "ASIA"  -> Fee("USD", 100)
                                [] r = "OTHER" -> Fee("USD", 125)]
      [] c = "Academia" ->
           [r \in Regions |-> CASE r = "INDIA" -> Fee("INR", 2000)
                                [] r = "ASIA"  -> Fee("USD", 150)
                                [] r = "OTHER" -> Fee("USD", 175)]
      [] c = "Industry Professionals" ->
           [r \in Regions |-> CASE r = "INDIA" -> Fee("INR", 2500)
                                [] r = "ASIA"  -> Fee("USD", 200)
                                [] r = "OTHER" -> Fee("USD", 225)]
      [] c = "Listeners / Accompanying" ->
           [r \in Regions |-> CASE r = "INDIA" -> Fee("INR", 500)
                                [] r = "ASIA"  -> Fee("USD", 30)
                                [] r = "OTHER" -> Fee("USD", 40)]]

\* The own property names of Object.prototype, which every object literal
\* inherits.
ObjectPrototypeKeys ==
  {"constructor", "__defineGetter__", "__defineSetter__", "hasOwnProperty",
   "__lookupGetter__", "__lookupSetter__", "isPrototypeOf",
   "propertyIsEnumerable", "toString", "valueOf", "__proto__",
   "toLocaleString"}

\* The members of Object.prototype that are methods.  FEES.constructor is
\* the Object function and FEES.__proto__ is Object.prototype itself.
ObjectPrototypeMethods == ObjectPrototypeKeys \ {"constructor", "__proto__"}

\* The length property of a method of Object.prototype.
MethodLength(m) ==
  CASE m \in {"__defineGetter__", "__defineSetter__"} -> 2
    [] m \in {"toString", "valueOf", "toLocaleString"} -> 0
    [] OTHER -> 1

\* The string-named own properties of Function.prototype.
FunctionPrototypeKeys ==
  {"length", "name", "arguments", "caller", "constructor", "apply", "bind",
   "call", "toString"}

\* The accessors of Function.prototype whose getter throws a TypeError.
RestrictedKeys == {"arguments", "caller"}

\* The own property names of the Object function, 25 on Node 20 (groupBy
\* joins them from Node 21 on).
ObjectStaticKeys ==
  {"length", "name", "prototype", "assign", "getOwnPropertyDescriptor",
   "getOwnPropertyDescriptors", "getOwnPropertyNames",
   "getOwnPropertySymbols", "hasOwn", "is", "preventExtensions", "seal",
   "create", "defineProperties", "defineProperty", "freeze",
   "getPrototypeOf", "setPrototypeOf", "isExtensible", "isFrozen",
   "isSealed", "keys", "entries", "fromEntries", "values"}

\* FEES[category]?.[region], each lookup following the prototype chain.
\*   "fee":       an entry of the table;
\*   "inherited": a truthy value that is no entry of the table (a function,
\*                a prototype object, a name, a non-zero length) and has no
\*                currency or amount property;
\*   "falsy":     null or 0, found through the chain;
\*   "undefined": nothing;
\*   "throws":    the lookup raises a TypeError.
FeesLookup(category, region) ==
  IF category \in Categories
    \* FEES[category] is a row of the table, an object literal.
    THEN IF region \in Regions
           THEN [kind |-> "fee", fee |-> FEES[category][region]]
           ELSE IF region \in ObjectPrototypeKeys
                  THEN [kind |-> "inherited"]
                  ELSE [kind |-> "undefined"]
  ELSE IF category = "__proto__"
    \* FEES.__proto__ is Object.prototype, whose own __proto__ is null.
    THEN IF region = "__proto__"
           THEN [kind |-> "falsy"]
           ELSE IF region \in ObjectPrototypeKeys
                  THEN [kind |-> "inherited"]
                  ELSE [kind |-> "undefined"]
  ELSE IF category = "constructor"
    \* FEES.constructor is the Object function.
    THEN IF region \in RestrictedKeys
           THEN [kind |-> "throws"]
           ELSE IF region \in ObjectStaticKeys \cup FunctionPrototypeKeys
                                \cup ObjectPrototypeKeys
                  THEN [kind |-> "inherited"]
                  ELSE [kind |-> "undefined"]
  ELSE IF category \in ObjectPrototypeMethods
    \* FEES[category] is a built-in method: own length and name, the rest
    \* from Function.prototype and Object.prototype.
    THEN IF region \in RestrictedKeys
           THEN [kind |-> "throws"]
           ELSE IF region = "length"
                  THEN IF MethodLength(category) = 0
                         THEN [kind |-> "falsy"]
                         ELSE [kind |-> "inherited"]
           ELSE IF region \in FunctionPrototypeKeys \cup ObjectPrototypeKeys
                  THEN [kind |-> "inherited"]
                  ELSE [kind |-> "undefined"]
  ELSE [kind |-> "undefined"]

\* !FEES[category]?.[region]
NoFee(category, region) ==
  FeesLookup(category, region).kind \in {"undefined", "falsy"}

\* const { currency, amount } = FEES[category][region]
FeeProps(v) ==
  IF v.kind = "fee"
    THEN ("currency" :> v.fee.currency) @@ ("amount" :> v.fee.amount)
    ELSE EmptyObj

(***************************************************************************)
(* The record store                                                        *)
(***************************************************************************)

\* JSON.parse of the file; a file that does not parse reads as [].
readDB == IF db.ok THEN db.rows ELSE <<>>

\* The file after fs.writeFileSync(DB_FILE, JSON.stringify(rows)).
writeDB(rows) == [ok |-> TRUE, rows |-> rows]

\* rows.find(r => r.id === id): the index of the first match, 0 if none.
FindIndex(rows, id) ==
  IF \E i \in 1..Len(rows) : rows[i]["id"] = id
    THEN CHOOSE i \in 1..Len(rows) :
           /\ rows[i]["id"] = id
           /\ \A j \in 1..(i - 1) : rows[j]["id"] # id
    ELSE 0

\* What a handler does: whether it calls writeDB, with which rows, and the
\* response it sends.
Outcome(write, rows, status, body) ==
  [write |-> write, rows |-> rows, status |-> status, body |-> body]

Reject(rows, status, message) ==
  Outcome(FALSE, rows, status, [error |-> message])

\* Bodies that are not JSON objects, each under one key: res.json(array),
\* res.send(text), and the lines written to a CSV response.
ArrayBody(items) == [array |-> items]

TextBody(text) == [text |-> text]

CsvBody(lines) == [csv |-> lines]

(***************************************************************************)
(* Registration                                                            *)
(***************************************************************************)

\* req.file when the request carries no upload: file?.filename is undefined.
NoFile == [filename |-> Undefined, originalname |-> Undefined]

\* NewRecord that looks the fee up under the first category of the table.
NewRecord_firstCategory(b, file, id, now) ==
  ("id" :> id) @@ ("created_at" :> now)
  @@ ("category" :> b.category) @@ ("region" :> b.region)
  @@ FeeProps(FeesLookup("Research Scholars", b.region))
  @@ ("paper_id" :> (IF Falsy(b.paperId) THEN Null ELSE b.paperId))
  @@ ("name" :> b.name)
  @@ ("organization" :> (IF Falsy(b.organization) THEN Null ELSE b.organization))
  @@ ("email" :> b.email) @@ ("mobile" :> b.mobile)
  @@ ("paper_filename" :> (IF Falsy(file.filename) THEN Null ELSE file.filename))
  @@ ("paper_original" :> (IF Falsy(file.originalname) THEN Null ELSE file.originalname))
  @@ ("paid" :> 0) @@ ("paid_at" :> Null) @@ ("transaction_id" :> Null)
  @@ ("payment_method" :> Null) @@ ("payer_email" :> Null)

\* NewRecord with a second code drawn for the stored record.
NewRecord_secondCode(b, file, id, now) ==
  ("id" :> (CHOOSE other \in {"7GQ2M4KX9A", "B3HT8WPL5N"} : other # id))
  @@ ("created_at" :> now)
  @@ ("category" :> b.category) @@ ("region" :> b.region)
  @@ FeeProps(FeesLookup(b.category, b.region))
  @@ ("paper_id" :> (IF Falsy(b.paperId) THEN Null ELSE b.paperId))
  @@ ("name" :> b.name)
  @@ ("organization" :> (IF Falsy(b.organization) THEN Null ELSE b.organization))
  @@ ("email" :> b.email) @@ ("mobile" :> b.mobile)
  @@ ("paper_filename" :> (IF Falsy(file.filename) THEN Null ELSE file.filename))
  @@ ("paper_original" :> (IF Falsy(file.originalname) THEN Null ELSE file.originalname))
  @@ ("paid" :> 0) @@ ("paid_at" :> Null) @@ ("transaction_id" :> Null)
  @@ ("payment_method" :> Null) @@ ("payer_email" :> Null)

\* The record POST /api/register builds, without the payment-proof fields.
NewRecord(b, file, id, now) ==
  ("id" :> id) @@ ("created_at" :> now)
  @@ ("category" :> b.category) @@ ("region" :> b.region)
  @@ FeeProps(FeesLookup(b.category, b.region))
  @@ ("paper_id" :> (IF Falsy(b.paperId) THEN Null ELSE b.paperId))
  @@ ("name" :> b.name)
  @@ ("organization" :> (IF Falsy(b.organization) THEN Null ELSE b.organization))
  @@ ("email" :> b.email) @@ ("mobile" :> b.mobile)
  @@ ("paper_filename" :> (IF Falsy(file.filename) THEN Null ELSE file.filename))
  @@ ("paper_original" :> (IF Falsy(file.originalname) THEN Null ELSE file.originalname))
  @@ ("paid" :> 0) @@ ("paid_at" :> Null) @@ ("transaction_id" :> Null)
  @@ ("payment_method" :> Null) @@ ("payer_email" :> Null)

RegisterBody(id, b, file) ==
  ("id" :> id) @@ FeeProps(FeesLookup(b.category, b.region))
  @@ ("file" :> (IF file = NoFile THEN Null ELSE "/uploads/" \o file.filename))

MissingRequired(b) ==
  \/ Falsy(b.category) \/ Falsy(b.region) \/ Falsy(b.name)
  \/ Falsy(b.email) \/ Falsy(b.mobile)

\* POST /api/register of part_000.  `rows` is what readDB returned.
registerA(b, file, id, now, rows) ==
  IF MissingRequired(b)
    THEN Reject(rows, 400, "Missing required fields")
  ELSE IF FeesLookup(b.category, b.region).kind = "throws"
    THEN Reject(rows, 500, "Registration failed")
  ELSE IF NoFee(b.category, b.region)
    THEN Reject(rows, 400, "Invalid category or region")
  ELSE Outcome(TRUE,
         Append(rows, NewRecord(b, file, id, now)
                        @@ ("payment_proof_filename" :> Null)
                        @@ ("payment_proof_original" :> Null)),
         200, RegisterBody(id, b, file))

\* POST /api/register of server.js.
registerB(b, file, id, now, rows) ==
  IF MissingRequired(b)
    THEN Reject(rows, 400, "Missing required fields")
  ELSE IF FeesLookup(b.category, b.region).kind = "throws"
    THEN Reject(rows, 500, "Registration failed")
  ELSE IF NoFee(b.category, b.region)
    THEN Reject(rows, 400, "Invalid category or region")
  ELSE Outcome(TRUE, Append(rows, NewRecord(b, file, id, now)),
               200, RegisterBody(id, b, file))

(***************************************************************************)
(* Payment confirmation                                                    *)
(***************************************************************************)

\* The comparison without toLowerCase.
EmailDiffers_exact(stored, supplied) == stored # supplied

\* a.toLowerCase() !== b.toLowerCase()
EmailDiffers(stored, supplied) == toLowerCase(stored) # toLowerCase(supplied)

\* POST /api/confirm-payment/:id of part_000.  b is req.body, file req.file.
\* An undefined b.email makes email.toLowerCase() throw; the catch answers 500.
confirmPaymentA(id, b, file, now, rows) ==
  LET idx == FindIndex(rows, id)
      rec == rows[idx]
      paidRec ==
        SetProp(SetProp(SetProp(
          ("paid" :> 1) @@ ("paid_at" :> now)
          @@ ("payment_proof_filename" :> file.filename)
          @@ ("payment_proof_original" :> file.originalname) @@ rec,
          "transaction_id", b.transactionId),
          "payment_method", b.method),
          "payer_email", b.email)
  IN
  IF file = NoFile
    THEN Reject(rows, 400, "Payment proof screenshot is required")
  ELSE IF idx = 0
    THEN Reject(rows, 404, "Registration not found")
  ELSE IF ~Falsy(Get(rec, "email")) /\ b.email = Undefined
    THEN Reject(rows, 500, "Payment confirmation failed")
  ELSE IF ~Falsy(Get(rec, "email")) /\ EmailDiffers(rec["email"], b.email)
    THEN Reject(rows, 400, "Email does not match registration")
  ELSE Outcome(TRUE, [rows EXCEPT ![idx] = paidRec], 200,
               ("ok" :> TRUE) @@ ("id" :> id))

\* POST /api/confirm-payment/:id of server.js.
confirmPaymentB(id, b, file, now, rows) ==
  LET idx == FindIndex(rows, id)
      rec == rows[idx]
      paidRec ==
        ("paid" :> 1) @@ ("paid_at" :> now)
        @@ ("transaction_id" :> b.transactionId)
        @@ ("payment_method" :> b.method)
        @@ ("payer_email" :> b.email) @@ rec
  IN
  IF Falsy(b.transactionId) \/ Falsy(b.method) \/ Falsy(b.email)
    THEN Reject(rows, 400, "Missing transaction ID, payment method, or email")
  ELSE IF idx = 0
    THEN Reject(rows, 404, "Not found")
  ELSE IF EmailDiffers(rec["email"], b.email)
    THEN Reject(rows, 400, "Email does not match registration record")
  ELSE Outcome(TRUE, [rows EXCEPT ![idx] = paidRec], 200,
               ("ok" :> TRUE) @@ ("paid_at" :> now)
               @@ ("transactionId" :> b.transactionId)
               @@ ("method" :> b.method) @@ ("email" :> b.email))

(***************************************************************************)
(* Admin                                                                   *)
(***************************************************************************)

\* checkAdminPassword comparing without regard to case.
checkAdminPassword_anyCase(query, header) ==
  LET pass == IF ~Falsy(query) THEN query
              ELSE IF ~Falsy(header) THEN header ELSE ""
  IN pass \in {ADMIN_PASSWORD, "vishalrajput2003", "VISHALRAJPUT2003"}

\* pass = req.query.password || req.headers["x-admin-password"] || "";
\* pass.toString() === ADMIN_PASSWORD, for string (or absent) secrets.
checkAdminPassword(query, header) ==
  LET pass == IF ~Falsy(query) THEN query
              ELSE IF ~Falsy(header) THEN header ELSE ""
  IN pass = ADMIN_PASSWORD

Reverse(rows) == [i \in 1..Len(rows) |-> rows[Len(rows) + 1 - i]]

\* (r.id + r.name + r.paper_id).toLowerCase().includes(q)
MatchesQuery(r, q) ==
  includes(toLowerCase(r["id"]) \o toLowerCase(r["name"])
             \o toLowerCase(StringOf(Get(r, "paper_id"))),
           toLowerCase(q))

UploadUrl(r, key) ==
  IF Falsy(Get(r, key)) THEN Null ELSE "/uploads/" \o r[key]

\* The rows GET /api/admin/registrations answers with, before the URLs.
Listed(rows, q) ==
  IF Falsy(q) THEN Reverse(rows)
  ELSE SelectSeq(Reverse(rows), LAMBDA r : MatchesQuery(r, q))

\* GET /api/admin/registrations of part_000.
listA(query, header, q, rows) ==
  IF ~checkAdminPassword(query, header)
    THEN Reject(rows, 401, "Unauthorized")
  ELSE LET shown == Listed(rows, q) IN
       Outcome(FALSE, rows, 200, ArrayBody(
         [i \in 1..Len(shown) |->
            ("paper_url" :> UploadUrl(shown[i], "paper_filename"))
            @@ ("payment_proof_url" :> UploadUrl(shown[i], "payment_proof_filename"))
            @@ shown[i]]))

\* GET /api/admin/registrations of server.js.
listB(query, header, q, rows) ==
  IF ~checkAdminPassword(query, header)
    THEN Reject(rows, 401, "Unauthorized")
  ELSE LET shown == Listed(rows, q) IN
       Outcome(FALSE, rows, 200, ArrayBody(
         [i \in 1..Len(shown) |->
            ("paper_url" :> UploadUrl(shown[i], "paper_filename")) @@ shown[i]]))

CsvHeadersB ==
  <<"id", "created_at", "category", "region", "currency", "amount",
    "paper_id", "name", "organization", "email", "mobile", "paper_filename",
    "paper_original", "paid", "paid_at", "transaction_id", "payment_method",
    "payer_email">>

CsvHeadersA ==
  CsvHeadersB \o <<"payment_proof_filename", "payment_proof_original">>

\* String(r[h] ?? ""): the cell before quoting (numbers are left as numbers).
CsvCell(r, h) ==
  IF h \notin DOMAIN r THEN ""
  ELSE IF h \in {"amount", "paid"} THEN r[h]
  ELSE IF r[h] = Null THEN "" ELSE r[h]

CsvLines(headers, rows) ==
  LET reversed == Reverse(rows) IN
  <<headers>> \o
  [i \in 1..Len(rows) |->
     [c \in 1..Len(headers) |-> CsvCell(reversed[i], headers[c])]]

\* GET /api/admin/export of part_000: the CSV, line by line.
exportA(query, header, rows) ==
  IF ~checkAdminPassword(query, header)
    THEN Outcome(FALSE, rows, 401, TextBody("Unauthorized"))
  ELSE Outcome(FALSE, rows, 200, CsvBody(CsvLines(CsvHeadersA, rows)))

\* GET /api/admin/export of server.js.
exportB(query, header, rows) ==
  IF ~checkAdminPassword(query, header)
    THEN Outcome(FALSE, rows, 401, TextBody("Unauthorized"))
  ELSE Outcome(FALSE, rows, 200, CsvBody(CsvLines(CsvHeadersB, rows)))

\* markPaid that resets the payment data when it unmarks a record.
markPaid_clearsPayment(query, header, id, paid, now, rows) ==
  LET idx == FindIndex(rows, id)
      rec == ("paid" :> (IF paid THEN 1 ELSE 0))
             @@ ("paid_at" :> (IF paid THEN now ELSE Null))
             @@ (IF paid THEN EmptyObj ELSE [k \in {"transaction_id"} |-> Null])
             @@ rows[idx]
  IN
  IF ~checkAdminPassword(query, header)
    THEN Reject(rows, 401, "Unauthorized")
  ELSE IF idx = 0
    THEN Reject(rows, 404, "Registration not found")
  ELSE Outcome(TRUE, [rows EXCEPT ![idx] = rec], 200,
               [ok |-> TRUE, registration |-> rec])

\* markPaid that sets paid_at only when marking paid.
markPaid_keepsPaidAt(query, header, id, paid, now, rows) ==
  LET idx == FindIndex(rows, id)
      rec == ("paid" :> (IF paid THEN 1 ELSE 0))
             @@ (IF paid THEN ("paid_at" :> now) ELSE EmptyObj) @@ rows[idx]
  IN
  IF ~checkAdminPassword(query, header)
    THEN Reject(rows, 401, "Unauthorized")
  ELSE IF idx = 0
    THEN Reject(rows, 404, "Registration not found")
  ELSE Outcome(TRUE, [rows EXCEPT ![idx] = rec], 200,
               [ok |-> TRUE, registration |-> rec])

\* POST /api/admin/mark-paid/:id of part_000.  paid is req.body.paid.
markPaid(query, header, id, paid, now, rows) ==
  LET idx == FindIndex(rows, id)
      rec == ("paid" :> (IF paid THEN 1 ELSE 0))
             @@ ("paid_at" :> (IF paid THEN now ELSE Null)) @@ rows[idx]
  IN
  IF ~checkAdminPassword(query, header)
    THEN Reject(rows, 401, "Unauthorized")
  ELSE IF idx = 0
    THEN Reject(rows, 404, "Registration not found")
  ELSE Outcome(TRUE, [rows EXCEPT ![idx] = rec], 200,
               [ok |-> TRUE, registration |-> rec])

(***************************************************************************)
(* Requests the environment sends                                          *)
(***************************************************************************)

Variants == {"A", "B"}

\* Codes nanoid() may return (10 characters of its alphabet).
Ids == {"7GQ2M4KX9A", "B3HT8WPL5N"}

UnknownId == "ZZZZZZZZZZ"

\* Values of new Date().toISOString().
Times == {"2026-01-01T00:00:00.000Z"}

PaperFile == [filename |-> "C5RD1VJY6E.pdf", originalname |-> "paper.pdf"]

ProofFile == [filename |-> "H8SU2FNA4K.png", originalname |-> "proof.png"]

ValidBody ==
  [category |-> "Academia", region |-> "ASIA", paperId |-> Undefined,
   name |-> "Ann", organization |-> Undefined, email |-> "A@x",
   mobile |-> "N7"]

Request(b, file) == [body |-> b, file |-> file]

\* Register requests of the lifecycle specification: one valid, two not.
RegRequests ==
  {Request(ValidBody, NoFile),
   Request([ValidBody EXCEPT !.email = ""], NoFile),
   Request([ValidBody EXCEPT !.region = "MARS"], NoFile)}

RequiredFields == {"category", "region", "name", "email", "mobile"}

\* Register requests of the registration specification: every pair of the
\* fee table, a request with every optional part, each required field
\* missing or empty, and pairs that are not in the table, among them names
\* that resolve through the prototype chain.
AnyRegRequests ==
  {Request([ValidBody EXCEPT !.category = c, !.region = r], NoFile) :
     c \in Categories, r \in Regions}
  \cup {Request([ValidBody EXCEPT !.paperId = "P7", !.organization = "Org"],
                PaperFile)}
  \cup {Request([ValidBody EXCEPT ![f] = v], PaperFile) :
          f \in RequiredFields, v \in {"", Undefined}}
  \cup {Request([ValidBody EXCEPT !.category = "Robots"], NoFile),
        Request([ValidBody EXCEPT !.region = "MARS"], NoFile),
        Request([ValidBody EXCEPT !.region = "constructor"], NoFile),
        Request([ValidBody EXCEPT !.region = "__proto__"], NoFile),
        Request([ValidBody EXCEPT !.category = "toString", !.region = "MARS"],
                NoFile)}
  \cup {Request([ValidBody EXCEPT !.category = p[1], !.region = p[2]], NoFile) :
          p \in {<<"constructor", "name">>, <<"constructor", "caller">>,
                 <<"__proto__", "constructor">>, <<"__proto__", "__proto__">>,
                 <<"toString", "call">>, <<"toString", "length">>,
                 <<"hasOwnProperty", "length">>}}

FullPayment == [transactionId |-> "TX1", method |-> "UPI", email |-> "a@x"]

\* Confirmation requests: the stored email in another case, another email,
\* an empty and a missing one; a missing transactionId, method, proof file.
ConfirmRequests ==
  {Request([FullPayment EXCEPT !.email = e], ProofFile) :
     e \in {"a@x", "b@x", "", Undefined}}
  \cup {Request([FullPayment EXCEPT !.transactionId = Undefined], ProofFile),
        Request([FullPayment EXCEPT !.method = Undefined], ProofFile),
        Request(FullPayment, NoFile)}

\* One confirmation that matches and one that does not.
FewConfirmRequests ==
  {Request(FullPayment, ProofFile),
   Request([FullPayment EXCEPT !.email = "b@x"], ProofFile)}

\* The secret in the query string and in the x-admin-password header.
Credential(query, header) == [query |-> query, header |-> header]

Credentials ==
  {Credential(ADMIN_PASSWORD, Undefined),
   Credential(Undefined, ADMIN_PASSWORD),
   Credential(Undefined, Undefined),
   Credential("", Undefined),
   Credential("vishalrajput2003", Undefined),
   Credential(Undefined, "VISHALRAJPUT2003"),
   Credential("letmein", ADMIN_PASSWORD)}

GoodCredential == Credential(ADMIN_PASSWORD, Undefined)

\* mark-paid requests: every credential on one record, and with the
\* password every id, known or not, marked paid and unpaid.
MarkPaidRequests ==
  {[cred |-> c, id |-> "7GQ2M4KX9A", paid |-> p] :
     c \in Credentials, p \in BOOLEAN}
  \cup {[cred |-> GoodCredential, id |-> id, paid |-> p] :
          id \in Ids \cup {UnknownId}, p \in BOOLEAN}

\* List requests: every credential, and a search with the password.
ListRequests ==
  {[cred |-> c, q |-> Undefined] : c \in Credentials}
  \cup {[cred |-> GoodCredential, q |-> "7g"]}

\* Confirmation targets: each request on the records, one on an unknown id.
ConfirmTargets ==
  {[id |-> id, rq |-> rq] : id \in Ids, rq \in ConfirmRequests}
  \cup {[id |-> UnknownId, rq |-> Request(FullPayment, ProofFile)]}

(***************************************************************************)
(* The server, one request at a time                                       *)
(***************************************************************************)

Exchange(op, status, body) == [op |-> op, status |-> status, body |-> body]

Idle == [pc |-> "idle"]

Init ==
  /\ variant \in Variants
  /\ db = [ok |-> TRUE, rows |-> <<>>]
  /\ last = Exchange("start", 0, EmptyObj)
  /\ reqs = [r \in 1..MaxReqs |-> Idle]
  /\ running = 0
  /\ acked = {}

\* A handler runs from its first line to its response: the file becomes
\* what it wrote, if it wrote, and `last` its response.
Serve(op, out) ==
  /\ db' = IF out.write THEN writeDB(out.rows) ELSE db
  /\ last' = Exchange(op, out.status, out.body)
  /\ UNCHANGED <<variant, reqs, running, acked>>

\* max caps the collection: a register that would exceed it is not sent.
RegisterAStep(b, file, id, now, max) ==
  /\ variant = "A"
  /\ registerA(b, file, id, now, readDB).write => Len(readDB) < max
  /\ Serve("register", registerA(b, file, id, now, readDB))

RegisterBStep(b, file, id, now, max) ==
  /\ variant = "B"
  /\ registerB(b, file, id, now, readDB).write => Len(readDB) < max
  /\ Serve("register", registerB(b, file, id, now, readDB))

ConfirmAStep(id, b, file, now) ==
  variant = "A" /\ Serve("confirmPayment", confirmPaymentA(id, b, file, now, readDB))

\* server.js reads no upload: the file part of the request is ignored.
ConfirmBStep(id, b, file, now) ==
  variant = "B" /\ Serve("confirmPayment", confirmPaymentB(id, b, file, now, readDB))

MarkPaidStep(query, header, id, paid, now) ==
  variant = "A" /\ Serve("markPaid", markPaid(query, header, id, paid, now, readDB))

ListAStep(query, header, q) ==
  variant = "A" /\ Serve("list", listA(query, header, q, readDB))

ListBStep(query, header, q) ==
  variant = "B" /\ Serve("list", listB(query, header, q, readDB))

ExportAStep(query, header) ==
  variant = "A" /\ Serve("export", exportA(query, header, readDB))

ExportBStep(query, header) ==
  variant = "B" /\ Serve("export", exportB(query, header, readDB))

RegisterA ==
  \E rq \in RegRequests, id \in Ids, now \in Times :
    RegisterAStep(rq.body, rq.file, id, now, MaxRows)

RegisterB ==
  \E rq \in RegRequests, id \in Ids, now \in Times :
    RegisterBStep(rq.body, rq.file, id, now, MaxRows)

ConfirmPaymentA ==
  \E t \in ConfirmTargets, now \in Times :
    ConfirmAStep(t.id, t.rq.body, t.rq.file, now)

ConfirmPaymentB ==
  \E t \in ConfirmTargets, now \in Times :
    ConfirmBStep(t.id, t.rq.body, t.rq.file, now)

MarkPaid ==
  \E m \in MarkPaidRequests, now \in Times :
    MarkPaidStep(m.cred.query, m.cred.header, m.id, m.paid, now)

ListA == \E l \in ListRequests : ListAStep(l.cred.query, l.cred.header, l.q)

ListB == \E l \in ListRequests : ListBStep(l.cred.query, l.cred.header, l.q)

ExportA == \E c \in Credentials : ExportAStep(c.query, c.header)

ExportB == \E c \in Credentials : ExportBStep(c.query, c.header)

\* The file is damaged from outside the handlers (a crash in the middle of
\* writeFileSync, a bad edit): its bytes no longer parse.
CorruptFile ==
  /\ db.ok
  /\ db' = [db EXCEPT !.ok = FALSE]
  /\ last' = Exchange("fault", 0, EmptyObj)
  /\ UNCHANGED <<variant, reqs, running, acked>>

Next ==
  \/ RegisterA \/ RegisterB
  \/ ConfirmPaymentA \/ ConfirmPaymentB
  \/ MarkPaid
  \/ ListA \/ ListB
  \/ ExportA \/ ExportB
  \/ CorruptFile

Spec == Init /\ [][Next]_vars

(***************************************************************************)
(* Registration in full: every kind of register request, then payments     *)
(***************************************************************************)

RegisterAnyA ==
  \E rq \in AnyRegRequests, id \in Ids, now \in Times :
    RegisterAStep(rq.body, rq.file, id, now, MaxRegRows)

RegisterAnyB ==
  \E rq \in AnyRegRequests, id \in Ids, now \in Times :
    RegisterBStep(rq.body, rq.file, id, now, MaxRegRows)

ConfirmFewA ==
  \E id \in Ids, rq \in FewConfirmRequests, now \in Times :
    ConfirmAStep(id, rq.body, rq.file, now)

ConfirmFewB ==
  \E id \in Ids, rq \in FewConfirmRequests, now \in Times :
    ConfirmBStep(id, rq.body, rq.file, now)

MarkPaidFew ==
  \E id \in Ids, paid \in BOOLEAN, now \in Times :
    MarkPaidStep(ADMIN_PASSWORD, Undefined, id, paid, now)

NextRegister ==
  \/ RegisterAnyA \/ RegisterAnyB
  \/ ConfirmFewA \/ ConfirmFewB
  \/ MarkPaidFew

SpecRegister == Init /\ [][NextRegister]_vars

(***************************************************************************)
(* Requests in flight.  Express runs a route handler as one callback: from *)
(* readDB to writeDB the handlers call only synchronous functions          *)
(* (fs.readFileSync, fs.writeFileSync), so the callback holds the only     *)
(* JavaScript thread until it has answered.  Here a handler is cut in two  *)
(* steps, its load and its save, and `running` is the callback on the      *)
(* stack; reqs[r].loaded is what its readDB returned.  `acked` collects    *)
(* the register and confirmPayment requests answered 200.                  *)
(***************************************************************************)

ConcRequest(kind, id, paid) == [kind |-> kind, id |-> id, paid |-> paid]

ConcRequests ==
  {ConcRequest("register", id, FALSE) : id \in Ids}
  \cup {ConcRequest("confirmPayment", id, FALSE) : id \in Ids}
  \cup {ConcRequest("markPaid", id, paid) : id \in Ids, paid \in BOOLEAN}

\* A handler that awaits its file I/O lets other callbacks run meanwhile.
EventLoopFree_awaits == TRUE

\* No callback is on the stack: the event loop may start the next one.
EventLoopFree == running = 0

\* The handler of request rq, run on the rows its readDB returned.
HandlerOutcome(rq, now, loaded) ==
  CASE rq.kind = "register" ->
         IF variant = "A" THEN registerA(ValidBody, NoFile, rq.id, now, loaded)
                          ELSE registerB(ValidBody, NoFile, rq.id, now, loaded)
    [] rq.kind = "confirmPayment" ->
         IF variant = "A"
           THEN confirmPaymentA(rq.id, FullPayment, ProofFile, now, loaded)
           ELSE confirmPaymentB(rq.id, FullPayment, ProofFile, now, loaded)
    [] rq.kind = "markPaid" ->
         markPaid(ADMIN_PASSWORD, Undefined, rq.id, rq.paid, now, loaded)

\* A request has been received and parsed; its handler waits for the loop.
\* The lowest free slot takes it.
Arrive(r) ==
  /\ reqs[r].pc = "idle"
  /\ \A o \in 1..(r - 1) : reqs[o].pc # "idle"
  /\ \E rq \in ConcRequests :
       /\ rq.kind = "markPaid" => variant = "A"
       /\ reqs' = [reqs EXCEPT ![r] = [pc |-> "queued", rq |-> rq]]
  /\ UNCHANGED <<variant, db, last, running, acked>>

\* The handler starts and loads the collection.
Load(r) ==
  /\ reqs[r].pc = "queued"
  /\ EventLoopFree
  /\ reqs[r].rq.kind = "register" => Len(readDB) < MaxRows
  /\ reqs' = [reqs EXCEPT ![r] = [pc |-> "loaded", rq |-> reqs[r].rq,
                                  loaded |-> readDB]]
  /\ running' = r
  /\ UNCHANGED <<variant, db, last, acked>>

\* The handler changes what it loaded, saves it and answers.
Save(r) ==
  /\ reqs[r].pc = "loaded"
  /\ \E now \in Times :
       LET out == HandlerOutcome(reqs[r].rq, now, reqs[r].loaded) IN
       /\ db' = IF out.write THEN writeDB(out.rows) ELSE db
       /\ last' = Exchange(reqs[r].rq.kind, out.status, out.body)
       /\ acked' = IF out.status = 200 /\ reqs[r].rq.kind # "markPaid"
                     THEN acked \cup {reqs[r].rq} ELSE acked
  /\ reqs' = [reqs EXCEPT ![r] = Idle]
  /\ running' = 0
  /\ UNCHANGED variant

NextConc == \E r \in 1..MaxReqs : Arrive(r) \/ Load(r) \/ Save(r)

SpecConc == Init /\ [][NextConc]_vars

(***************************************************************************)
(* Properties                                                              *)
(***************************************************************************)

rows == db.rows

IsNull(v) == v \in {Null, Undefined}

PaymentKeys == {"transaction_id", "payment_method", "payer_email"}

PaymentFields(r) == [k \in PaymentKeys |-> Get(r, k)]

Succeeded(op) == last'.op = op /\ last'.status = 200

\* C1 as stated: every record with paid = false has paid_at,
\* transaction_id, payment_method and payer_email all null.
C1_UnpaidHasNoPaymentData ==
  \A i \in 1..Len(rows) :
    rows[i]["paid"] = 0 =>
      /\ IsNull(Get(rows[i], "paid_at"))
      /\ \A k \in PaymentKeys : IsNull(Get(rows[i], k))

C1_UnpaidHasNoPaidAt ==
  \A i \in 1..Len(rows) : rows[i]["paid"] = 0 => rows[i]["paid_at"] = Null

\* The payment fields across one step.  A successful register appends one
\* record with the three fields null and keeps them on every loaded record;
\* a successful confirmPayment writes the request's transactionId, method
\* and email into the record it addresses and keeps the fields of every
\* other record; every other step keeps the number of records and the
\* three fields of each.
C1_PaymentFieldsStep ==
  IF Succeeded("register")
    THEN /\ Len(rows') = Len(readDB) + 1
         /\ \A i \in 1..Len(readDB) :
              PaymentFields(rows'[i]) = PaymentFields(readDB[i])
         /\ \A k \in PaymentKeys : rows'[Len(rows')][k] = Null
  ELSE IF Succeeded("confirmPayment")
    THEN \A t \in ConfirmTargets, now \in Times :
           (ConfirmAStep(t.id, t.rq.body, t.rq.file, now)
              \/ ConfirmBStep(t.id, t.rq.body, t.rq.file, now)) =>
             LET i == FindIndex(readDB, t.id) IN
             /\ i # 0
             /\ Len(rows') = Len(readDB)
             /\ PaymentFields(rows'[i]) =
                  [transaction_id |-> t.rq.body.transactionId,
                   payment_method |-> t.rq.body.method,
                   payer_email    |-> t.rq.body.email]
             /\ \A j \in 1..Len(readDB) :
                  j # i => PaymentFields(rows'[j]) = PaymentFields(readDB[j])
  ELSE /\ Len(rows') = Len(rows)
       /\ \A i \in 1..Len(rows) :
            PaymentFields(rows'[i]) = PaymentFields(rows[i])

\* C1 (amended): every record with paid = false has paid_at null.  Its
\* transaction_id, payment_method and payer_email are null when register
\* creates it and change only in a successful confirmPayment on that
\* record, which sets them to the request's values; every other step,
\* markPaid with paid = false included, leaves them as they were.
C1_UnpaidAmended == []C1_UnpaidHasNoPaidAt /\ [][C1_PaymentFieldsStep]_vars

\* A record that markPaid(false) left unpaid with its payment data in place.
C1_Witness ==
  /\ last.op = "markPaid" /\ last.status = 200
  /\ \E i \in 1..Len(rows) :
       /\ rows[i]["paid"] = 0 /\ rows[i]["paid_at"] = Null
       /\ Get(rows[i], "transaction_id") = "TX1"
       /\ Get(rows[i], "payer_email") = "a@x"

\* C2: markPaid(id, false) with the right secret, on a record a load
\* returns, sets paid to 0 and paid_at to null and changes no other field
\* of it, no other record and not the number of records; on an id no loaded
\* record has it answers 404 and leaves the file as it was.
C2_MarkUnpaidFrame ==
  [][last'.op = "markPaid" =>
     \A m \in MarkPaidRequests, now \in Times :
       (~m.paid /\ checkAdminPassword(m.cred.query, m.cred.header)
          /\ MarkPaidStep(m.cred.query, m.cred.header, m.id, FALSE, now)) =>
         LET i == FindIndex(readDB, m.id) IN
         IF i = 0
           THEN last'.status = 404 /\ db' = db
           ELSE /\ last'.status = 200
                /\ db'.ok /\ Len(rows') = Len(rows)
                /\ rows'[i]["paid"] = 0 /\ rows'[i]["paid_at"] = Null
                /\ DOMAIN rows'[i] = DOMAIN rows[i]
                /\ \A k \in DOMAIN rows[i] \ {"paid", "paid_at"} :
                     rows'[i][k] = rows[i][k]
                /\ \A j \in 1..Len(rows) : j # i => rows'[j] = rows[j]]_vars

\* markPaid(false) has just unmarked a confirmed record, beside another one.
C2_Witness ==
  /\ last.op = "markPaid" /\ last.status = 200 /\ Len(rows) = 2
  /\ \E i \in 1..2 :
       /\ rows[i]["paid"] = 0 /\ rows[i]["paid_at"] = Null
       /\ Get(rows[i], "transaction_id") = "TX1"
       /\ Get(rows[i], "payment_method") = "UPI"
       /\ Get(rows[i], "payer_email") = "a@x"
       /\ rows[i]["payment_proof_filename"] = ProofFile.filename
       /\ rows[3 - i]["paid"] = 1

CharsMatch(c, d) ==
  c = d \/ \E i \in 1..26 : {c, d} = {UpperCase[i], LowerCase[i]}

\* The two strings differ at most in the case of their letters.
SameIgnoringCase(a, b) ==
  /\ Len(Spell(a)) = Len(Spell(b))
  /\ \A i \in 1..Len(Spell(a)) : CharsMatch(Spell(a)[i], Spell(b)[i])

\* The request carries what its variant checks before the email comparison
\* (the proof file in A; transactionId, method and email in B).
ReachesEmailCheck(rq) ==
  /\ rq.body.email # Undefined
  /\ variant = "A" => rq.file # NoFile
  /\ variant = "B" => ~Falsy(rq.body.transactionId) /\ ~Falsy(rq.body.method)
                        /\ ~Falsy(rq.body.email)

\* C5: a confirmPayment on a loaded record that reaches the email check
\* succeeds and marks the record paid when the supplied email equals the
\* stored one up to letter case, and otherwise answers 400 "Email does not
\* match" and leaves the file as it was; and a record's paid flag goes from
\* 0 to 1 only by such a confirmation or by markPaid.
C5_EmailGate ==
  [][/\ last'.op = "confirmPayment" =>
        \A id \in Ids, rq \in ConfirmRequests, now \in Times :
          ((ConfirmAStep(id, rq.body, rq.file, now)
              \/ ConfirmBStep(id, rq.body, rq.file, now))
             /\ FindIndex(readDB, id) # 0 /\ ReachesEmailCheck(rq)) =>
            LET i == FindIndex(readDB, id) IN
            IF SameIgnoringCase(rows[i]["email"], rq.body.email)
              THEN /\ last'.status = 200
                   /\ rows'[i]["paid"] = 1
                   /\ rows'[i]["payer_email"] = rq.body.email
              ELSE /\ last'.status = 400
                   /\ last'.body \in
                        {[error |-> "Email does not match registration"],
                         [error |-> "Email does not match registration record"]}
                   /\ db' = db
     /\ \A i \in 1..Len(rows) :
          (i <= Len(rows') /\ rows[i]["paid"] = 0 /\ rows'[i]["paid"] = 1
             /\ rows'[i]["id"] = rows[i]["id"]) =>
            \/ Succeeded("markPaid")
            \/ /\ Succeeded("confirmPayment")
               /\ SameIgnoringCase(rows[i]["email"], rows'[i]["payer_email"])]_vars

\* A confirmation whose email differs from the stored one in case only has
\* just marked the record paid.
C5_Witness ==
  /\ last.op = "confirmPayment" /\ last.status = 200
  /\ \E i \in 1..Len(rows) :
       /\ rows[i]["paid"] = 1 /\ rows[i]["email"] = "A@x"
       /\ rows[i]["payer_email"] = "a@x"

\* The secret the server reads does not equal the password: the query
\* parameter when it is given, else the header, else nothing.
WrongSecret(c) ==
  /\ c.query # ADMIN_PASSWORD
  /\ ~Falsy(c.query) \/ c.header # ADMIN_PASSWORD

Refused(body) == last'.status = 401 /\ db' = db /\ last'.body = body

\* C6: list, export and markPaid with a secret that is not exactly the
\* password (empty, missing, another case) answer 401, leave the file as it
\* was and carry no record in the body: a step of one of them that is not
\* such a refusal was made with the password.
C6_AdminRejects ==
  [][/\ (last'.op = "list" /\ ~Refused([error |-> "Unauthorized"])) =>
          \A l \in ListRequests :
            (ListAStep(l.cred.query, l.cred.header, l.q)
               \/ ListBStep(l.cred.query, l.cred.header, l.q))
              => ~WrongSecret(l.cred)
     /\ (last'.op = "export" /\ ~Refused(TextBody("Unauthorized"))) =>
          \A c \in Credentials :
            (ExportAStep(c.query, c.header) \/ ExportBStep(c.query, c.header))
              => ~WrongSecret(c)
     /\ (last'.op = "markPaid" /\ ~Refused([error |-> "Unauthorized"])) =>
          \A m \in MarkPaidRequests, now \in Times :
            MarkPaidStep(m.cred.query, m.cred.header, m.id, m.paid, now)
              => ~WrongSecret(m.cred)]_vars

\* An admin request was refused while the file held an unpaid record.
C6_Witness ==
  /\ last.op \in {"markPaid", "list", "export"} /\ last.status = 401
  /\ Len(rows) > 0 /\ rows[1]["paid"] = 0

IdsOf(records) == {records[i]["id"] : i \in 1..Len(records)}

UniqueIds(records) ==
  \A i, j \in 1..Len(records) : records[i]["id"] = records[j]["id"] => i = j

\* C7 as stated: no two records of the persisted collection have the same id.
C7_IdsUnique == UniqueIds(rows)

\* C7 (amended): a successful register appends one record, carrying the id
\* it returns, to the records it loaded, whether or not a loaded record has
\* that id already: ids stay unique exactly when the generated code is
\* fresh.  No other operation changes the sequence of ids.
C7_IdsFollowGenerator ==
  [][IF Succeeded("register")
       THEN /\ Len(rows') = Len(readDB) + 1
            /\ \A i \in 1..Len(readDB) : rows'[i] = readDB[i]
            /\ rows'[Len(rows')]["id"] = last'.body["id"]
            /\ last'.body["id"] \in Ids
            /\ UniqueIds(rows') <=>
                 (UniqueIds(readDB) /\ last'.body["id"] \notin IdsOf(readDB))
       ELSE [i \in 1..Len(rows') |-> rows'[i]["id"]]
              = [i \in 1..Len(rows) |-> rows[i]["id"]]]_vars

\* Two registers were given the same code: both records are in the file.
C7_Witness ==
  /\ last.op = "register" /\ last.status = 200
  /\ Len(rows) = 2 /\ rows[1]["id"] = rows[2]["id"]

\* C8 as stated: a confirmPayment on a loaded record that lacks
\* transactionId, method or email (or, in A, the proof file) answers 400 and
\* leaves the record as it was.
C8_MissingFieldRejected ==
  [][last'.op = "confirmPayment" =>
     \A id \in Ids, rq \in ConfirmRequests, now \in Times :
       ((ConfirmAStep(id, rq.body, rq.file, now)
           \/ ConfirmBStep(id, rq.body, rq.file, now))
          /\ FindIndex(readDB, id) # 0
          /\ \/ Falsy(rq.body.transactionId) \/ Falsy(rq.body.method)
             \/ Falsy(rq.body.email)
             \/ variant = "A" /\ rq.file = NoFile) =>
         last'.status = 400 /\ db' = db]_vars

\* C10 as stated: a record that is in the persisted collection is in it in
\* every later state.
C10_NeverDeleted ==
  [][\A i \in 1..Len(rows) : i <= Len(rows') /\ rows'[i]["id"] = rows[i]["id"]]_vars

InFeeTable(b) == b.category \in Categories /\ b.region \in Regions

\* C3 as stated: a register with a required field missing or empty, or with
\* a (category, region) pair that is not in the fee table, answers 400 and
\* leaves the file as it was.
C3_BadRegisterRejected ==
  [][last'.op = "register" =>
     \A rq \in AnyRegRequests, id \in Ids, now \in Times :
       ((RegisterAStep(rq.body, rq.file, id, now, MaxRegRows)
           \/ RegisterBStep(rq.body, rq.file, id, now, MaxRegRows))
          /\ (MissingRequired(rq.body) \/ ~InFeeTable(rq.body))) =>
         last'.status = 400 /\ db' = db]_vars

FeeFields(r) == [k \in {"currency", "amount"} \cap DOMAIN r |-> r[k]]

\* C4: a successful register for a pair of the fee table answers with the
\* table's currency and amount for that pair and stores them in the record
\* it appends; every step that is not a register keeps the number of
\* records and the currency and amount of each.
C4_FeeSnapshot ==
  [][IF last'.op = "register"
       THEN last'.status = 200 =>
              LET new == rows'[Len(rows')] IN
              \A rq \in {x \in AnyRegRequests :
                           /\ InFeeTable(x.body)
                           /\ x.body.category = new["category"]
                           /\ x.body.region = new["region"]},
                 id \in Ids, now \in Times :
                (RegisterAStep(rq.body, rq.file, id, now, MaxRegRows)
                   \/ RegisterBStep(rq.body, rq.file, id, now, MaxRegRows)) =>
                  /\ FeeFields(last'.body) = FEES[rq.body.category][rq.body.region]
                  /\ FeeFields(new) = FEES[rq.body.category][rq.body.region]
       ELSE /\ Len(rows') = Len(rows)
            /\ \A i \in 1..Len(rows) : FeeFields(rows'[i]) = FeeFields(rows[i])]_vars

\* A record registered at 40 USD was confirmed, then unmarked by the admin,
\* and still carries that fee.
C4_Witness ==
  /\ last.op = "markPaid" /\ last.status = 200
  /\ \E i \in 1..Len(rows) :
       /\ rows[i]["category"] = "Listeners / Accompanying"
       /\ rows[i]["region"] = "OTHER"
       /\ FeeFields(rows[i]) = Fee("USD", 40)
       /\ rows[i]["paid"] = 0 /\ rows[i]["payer_email"] = "a@x"

\* What an acknowledged request leaves in the collection.
EffectPresent(rq) ==
  \E i \in 1..Len(rows) :
    /\ rows[i]["id"] = rq.id
    /\ rq.kind = "confirmPayment" => rows[i]["payer_email"] = FullPayment.email

\* C9: between a handler's readDB and its writeDB no other handler writes
\* (what it loaded is still what the file holds when it saves), and once no
\* request is in flight every register and confirmPayment answered 200 has
\* its record, respectively its payment, in the persisted collection.
C9_NoLostUpdate ==
  /\ \A r \in 1..MaxReqs : reqs[r].pc = "loaded" => reqs[r].loaded = readDB
  /\ (\A r \in 1..MaxReqs : reqs[r].pc = "idle") =>
       \A rq \in acked : EffectPresent(rq)

\* Two registers and a confirmation were in flight together and all were
\* answered 200; nothing is in flight any more.
C9_Witness ==
  /\ \A r \in 1..MaxReqs : reqs[r].pc = "idle"
  /\ Len(rows) = 2 /\ rows[1]["id"] # rows[2]["id"]
  /\ \E rq \in acked : rq.kind = "confirmPayment"
  /\ Cardinality(acked) = 3

====
